---- MODULE Spec2Model ----
(***************************************************************************)
(* A model of zgiber/topspenders: parse.TopSpenders reads a CSV of         *)
(* transactions through a producer goroutine (newTxStream) and a one-slot  *)
(* channel, aggregates CARD SPEND rows per (month, email) and writes the   *)
(* top five spenders of every month (writeMonthlySpendings).               *)
(*                                                                         *)
(* Amounts are float64 in the source.  The model keeps the amounts whose   *)
(* value is an integer below 2^31: on those float64 addition and           *)
(* multiplication are exact, so Int arithmetic is the arithmetic of the    *)
(* program.  Decimal literals of such values are read as ParseFloat reads  *)
(* them, underscores between digits included.  Outside the modelled domain *)
(* are the other strings strconv.ParseFloat accepts or answers with        *)
(* ErrRange: literals with a fractional value or a value of 2^31 and more, *)
(* "NaN", "Inf" and "Infinity" in any letter case, signed or not, and      *)
(* hexadecimal literals.  The output sink is a writer that accepts every   *)
(* write (bytes.Buffer, os.Stdout).                                        *)
(***************************************************************************)
EXTENDS Integers, Sequences, FiniteSets, TLC

(***************************************************************************)
(* Constants of parse.go                                                   *)
(***************************************************************************)
txCardSpend == "CARD SPEND"
txBuyGold == "BUY GOLD"
txSellGold == "SELL GOLD"
currencyGBP == "GBP"
currencyGGM == "GGM"
currencyPrecisionDecimals == 7
\* the hard-coded top-N of writeMonthlySpendings
topNLimit == 5
\* len(record) < 10 in decodeRecord
minColumns == 10
\* make(chan parsedTx, 1)
txChanCap == 1

(***************************************************************************)
(* Errors.  An error value is its message; the producer tags the error it  *)
(* sends with the number of the input record it belongs to (record 1 is    *)
(* the header).  The tag is bookkeeping of the model, used to say which    *)
(* row an error came from.                                                 *)
(***************************************************************************)
NoMsg == "nil"
NilErr == [msg |-> NoMsg, row |-> 0]
errEOF == "EOF"
errRead == "read error"
errFieldCount == "record on line: wrong number of fields"
errColumns == "invalid number of columns"
errSyntax == "strconv.ParseFloat: invalid syntax"
errTime == "invalid time format"
errTxType == "unknown transaction type"
errCurrency == "unsupported currency"

(***************************************************************************)
(* strconv.ParseFloat(s, 64) on decimal literals (readFloat): an optional  *)
(* sign, digits with an optional point, an optional exponent; underscores  *)
(* are skipped among the digits and are accepted when each one stands      *)
(* between two digits (underscoreOK).  val is the value when it is an      *)
(* integer (integral = TRUE); for a literal with a fractional value val is *)
(* its integer part and integral is FALSE.  A string that is not such a    *)
(* literal is a syntax error (value 0).                                    *)
(***************************************************************************)
\* the element of a one-element set: Only({F(x) : x \in {e}}) is F(e) with e
\* computed once
Only(S) == CHOOSE x \in S : TRUE

\* s[i] as a one-character string ("" past the end of s)
CharAt(s, i) == IF i >= 1 /\ i <= Len(s) THEN SubSeq(s, i, i) ELSE ""

DigitValue ==
  ("0" :> 0) @@ ("1" :> 1) @@ ("2" :> 2) @@ ("3" :> 3) @@ ("4" :> 4) @@
  ("5" :> 5) @@ ("6" :> 6) @@ ("7" :> 7) @@ ("8" :> 8) @@ ("9" :> 9)

IsDigit(s, i) == CharAt(s, i) \in DOMAIN DigitValue

\* the index after the run of digits and underscores of s that starts at i:
\* the loops of readFloat step over "_"
RECURSIVE DigitsEnd(_, _)
DigitsEnd(s, i) ==
  IF IsDigit(s, i) \/ CharAt(s, i) = "_" THEN DigitsEnd(s, i + 1) ELSE i

\* the digits among s[from..to-1], the underscores left out
RECURSIVE Digits(_, _, _)
Digits(s, from, to) ==
  IF to <= from THEN ""
  ELSE (IF IsDigit(s, from) THEN CharAt(s, from) ELSE "") \o Digits(s, from + 1, to)

\* underscoreOK(s[:to-1]) from the character at i on, saw being "^" at the
\* beginning of the number, "0" after a digit, "_" after an underscore and
\* "!" after anything else: an underscore must follow a digit and be
\* followed by one
RECURSIVE underscoreScan(_, _, _, _)
underscoreScan(s, i, to, saw) ==
  IF i >= to THEN saw # "_"
  ELSE IF IsDigit(s, i) THEN underscoreScan(s, i + 1, to, "0")
  ELSE IF CharAt(s, i) = "_" THEN saw = "0" /\ underscoreScan(s, i + 1, to, "_")
  ELSE saw # "_" /\ underscoreScan(s, i + 1, to, "!")

\* a base prefix ("0x") begins no decimal literal
underscoreOK(s, to) ==
  underscoreScan(s, IF CharAt(s, 1) \in {"+", "-"} THEN 2 ELSE 1, to, "^")

\* the number the digits s[from..to-1] spell (0 for none)
RECURSIVE Atoi(_, _, _)
Atoi(s, from, to) ==
  IF to <= from THEN 0
  ELSE Atoi(s, from, to - 1) * 10 + DigitValue[CharAt(s, to - 1)]

RECURSIVE Pow10(_)
Pow10(n) == IF n <= 0 THEN 1 ELSE 10 * Pow10(n - 1)

\* s[from..to-1] are all "0"
RECURSIVE AllZero(_, _, _)
AllZero(s, from, to) ==
  to <= from \/ (CharAt(s, from) = "0" /\ AllZero(s, from + 1, to))

\* the value of the mantissa int . frac (strings of digits) times 10^exp:
\* its integer part, and whether that is all of it; a mantissa of zeros is
\* zero under every exponent
decimalValue(int, frac, exp) ==
  IF AllZero(int, 1, Len(int) + 1) /\ AllZero(frac, 1, Len(frac) + 1)
    THEN [magnitude |-> 0, integral |-> TRUE]
  ELSE IF exp >= 0
    THEN IF exp >= Len(frac)
           THEN [magnitude |->
                   (Atoi(int, 1, Len(int) + 1) * Pow10(Len(frac))
                      + Atoi(frac, 1, Len(frac) + 1))
                   * Pow10(exp - Len(frac)),
                 integral |-> TRUE]
           ELSE [magnitude |->
                   Atoi(int, 1, Len(int) + 1) * Pow10(exp) + Atoi(frac, 1, exp + 1),
                 integral |-> AllZero(frac, exp + 1, Len(frac) + 1)]
    ELSE IF -exp >= Len(int)
           THEN [magnitude |-> 0, integral |-> FALSE]
           ELSE [magnitude |-> Atoi(int, 1, Len(int) + 1 + exp),
                 integral |-> AllZero(frac, 1, Len(frac) + 1)
                                /\ AllZero(int, Len(int) + 1 + exp, Len(int) + 1)]

\* the sign, the mantissa and the exponent put together
floatValue(s, int, frac, exp) ==
  Only({[val |-> IF CharAt(s, 1) = "-" THEN -v.magnitude ELSE v.magnitude,
         err |-> NoMsg, integral |-> v.integral] :
          v \in {decimalValue(int, frac, exp)}})

\* the literal is well formed when its mantissa has a digit, its exponent,
\* if any, begins with a digit, its underscores stand between digits, and
\* nothing follows
readExponent(s, intStart, intEnd, fracStart, fracEnd, expStart, expEnd) ==
  IF /\ Len(Digits(s, intStart, intEnd)) + Len(Digits(s, fracStart, fracEnd)) >= 1
     /\ expStart > fracEnd => IsDigit(s, expStart)
     /\ underscoreOK(s, expEnd)
     /\ expEnd = Len(s) + 1
    THEN Only({floatValue(s, int, frac, exp) :
                 int \in {Digits(s, intStart, intEnd)},
                 frac \in {Digits(s, fracStart, fracEnd)},
                 exp \in {(IF CharAt(s, fracEnd + 1) = "-" THEN -1 ELSE 1)
                            * Only({Atoi(e, 1, Len(e) + 1) :
                                      e \in {Digits(s, expStart, expEnd)}})}})
    ELSE [val |-> 0, err |-> errSyntax, integral |-> TRUE]

\* after the mantissa: "e" or "E", an optional sign, the digits of the exponent
readMantissaEnd(s, intStart, intEnd, fracStart, fracEnd, expStart) ==
  Only({readExponent(s, intStart, intEnd, fracStart, fracEnd, expStart, expEnd) :
          expEnd \in {IF IsDigit(s, expStart) THEN DigitsEnd(s, expStart)
                      ELSE expStart}})

readFraction(s, intStart, intEnd, fracStart, fracEnd) ==
  Only({readMantissaEnd(s, intStart, intEnd, fracStart, fracEnd, expStart) :
          expStart \in {IF CharAt(s, fracEnd) \notin {"e", "E"} THEN fracEnd
                        ELSE IF CharAt(s, fracEnd + 1) \in {"+", "-"} THEN fracEnd + 2
                        ELSE fracEnd + 1}})

\* after the integer digits: an optional point and the fraction digits
readPoint(s, intStart, intEnd, fracStart) ==
  Only({readFraction(s, intStart, intEnd, fracStart, fracEnd) :
          fracEnd \in {DigitsEnd(s, fracStart)}})

readInteger(s, intStart, intEnd) ==
  Only({readPoint(s, intStart, intEnd, fracStart) :
          fracStart \in {IF CharAt(s, intEnd) = "." THEN intEnd + 1 ELSE intEnd}})

\* after the optional sign: the integer digits
readSign(s, intStart) ==
  Only({readInteger(s, intStart, intEnd) : intEnd \in {DigitsEnd(s, intStart)}})

ParseFloat(s) ==
  Only({readSign(s, intStart) :
          intStart \in {IF CharAt(s, 1) \in {"+", "-"} THEN 2 ELSE 1}})

(***************************************************************************)
(* time.Parse("02/01/2006 15:04", s): two digits of day, of month, four of *)
(* year, one or more spaces, one or two digits of hour, two of minute,     *)
(* nothing after them, every field in its range.  A time.Time is kept as   *)
(* its calendar fields.                                                    *)
(***************************************************************************)
ZeroTime == [Year |-> 1, Month |-> 1, Day |-> 1, Hour |-> 0, Minute |-> 0]

\* the index after the run of spaces of s that starts at i
RECURSIVE SpacesEnd(_, _)
SpacesEnd(s, i) == IF CharAt(s, i) = " " THEN SpacesEnd(s, i + 1) ELSE i

isLeap(year) == year % 4 = 0 /\ (year % 100 # 0 \/ year % 400 = 0)

daysIn(month, year) ==
  IF month = 2 THEN (IF isLeap(year) THEN 29 ELSE 28)
  ELSE IF month \in {4, 6, 9, 11} THEN 30
  ELSE 31

\* the time of day s[hourStart..]: one or two digits of hour, ":", two
\* digits of minute, and nothing after them
readClock(s, day, month, year, hourStart, hourEnd) ==
  IF /\ IsDigit(s, hourStart)
     /\ CharAt(s, hourEnd) = ":"
     /\ IsDigit(s, hourEnd + 1) /\ IsDigit(s, hourEnd + 2)
     /\ Len(s) = hourEnd + 2
     /\ month >= 1 /\ month <= 12
     /\ day >= 1 /\ day <= daysIn(month, year)
     /\ Atoi(s, hourStart, hourEnd) < 24
     /\ Atoi(s, hourEnd + 1, hourEnd + 3) < 60
    THEN [val |-> [Year |-> year, Month |-> month, Day |-> day,
                   Hour |-> Atoi(s, hourStart, hourEnd),
                   Minute |-> Atoi(s, hourEnd + 1, hourEnd + 3)],
          err |-> NoMsg]
    ELSE [val |-> ZeroTime, err |-> errTime]

readHour(s, day, month, year, hourStart) ==
  Only({readClock(s, day, month, year, hourStart, hourEnd) :
          hourEnd \in {IF IsDigit(s, hourStart + 1) THEN hourStart + 2
                       ELSE hourStart + 1}})

ParseTime(s) ==
  IF /\ IsDigit(s, 1) /\ IsDigit(s, 2)
     /\ CharAt(s, 3) = "/"
     /\ IsDigit(s, 4) /\ IsDigit(s, 5)
     /\ CharAt(s, 6) = "/"
     /\ IsDigit(s, 7) /\ IsDigit(s, 8) /\ IsDigit(s, 9) /\ IsDigit(s, 10)
     /\ CharAt(s, 11) = " "
    THEN Only({readHour(s, date[1], date[2], date[3], hourStart) :
                 date \in {<<Atoi(s, 1, 3), Atoi(s, 4, 6), Atoi(s, 7, 11)>>},
                 hourStart \in {SpacesEnd(s, 11)}})
    ELSE [val |-> ZeroTime, err |-> errTime]

(***************************************************************************)
(* type Transaction; NilTx stands for the nil *Transaction.                *)
(***************************************************************************)
NilTx ==
  [FirstName |-> "", LastName |-> "", Email |-> "", TransactionType |-> "",
   MerchantCode |-> "", Amount |-> 0, FromCurrency |-> "", ToCurrency |-> "",
   Rate |-> 0, Date |-> ZeroTime]

\* a validation of the transaction type alone
validateTypeOnly(t) ==
  IF t.TransactionType \notin {txBuyGold, txSellGold, txCardSpend} THEN errTxType
  ELSE NoMsg

\* func (t *Transaction) validate() error
validate(t) ==
  IF t.TransactionType \notin {txBuyGold, txSellGold, txCardSpend} THEN errTxType
  ELSE IF t.FromCurrency \notin {currencyGBP, currencyGGM} THEN errCurrency
  ELSE IF t.ToCurrency \notin {currencyGBP, currencyGGM} THEN errCurrency
  ELSE NoMsg

\* func decodeRecord(record []string) (*Transaction, error); record[k] of the
\* source is record[k+1] here.
decodeRecord(record) ==
  IF Len(record) < minColumns THEN [tx |-> NilTx, err |-> errColumns]
  ELSE LET amount == ParseFloat(record[6])
           rate == ParseFloat(record[9])
           date == ParseTime(record[10])
       IN IF amount.err # NoMsg THEN [tx |-> NilTx, err |-> amount.err]
          ELSE IF rate.err # NoMsg THEN [tx |-> NilTx, err |-> rate.err]
          ELSE IF date.err # NoMsg THEN [tx |-> NilTx, err |-> date.err]
          ELSE [tx |-> [FirstName |-> record[1], LastName |-> record[2],
                        Email |-> record[3], TransactionType |-> record[4],
                        MerchantCode |-> record[5], Amount |-> amount.val,
                        FromCurrency |-> record[7], ToCurrency |-> record[8],
                        Rate |-> rate.val, Date |-> date.val],
                err |-> NoMsg]

(***************************************************************************)
(* type UserMonthlySpending and its update method                          *)
(***************************************************************************)
\* the GBP amount update adds to TotalGBP for tx (parse.go:72-78)
contribution(tx) ==
  (IF tx.FromCurrency = currencyGGM THEN tx.Amount * tx.Rate ELSE 0)
  + (IF tx.FromCurrency = currencyGBP THEN tx.Amount ELSE 0)

\* func (us *UserMonthlySpending) update(tx *Transaction)
update(us, tx) ==
  [us EXCEPT !.TotalGBP = @ + contribution(tx),
             !.TransactionCount = @ + 1]

\* func monthKey(date time.Time) int
monthKey(date) == date.Year * 100 + date.Month

\* the filter that only drops BUY GOLD
isCardSpendOrSell(tx) == tx.TransactionType # txBuyGold

\* the filter of TopSpenders: only CARD SPEND transactions are aggregated
isCardSpend(tx) == tx.TransactionType = txCardSpend

\* an aggregation that takes the names of every transaction it adds
aggregateLatestNames(spendings, tx) ==
  LET key == monthKey(tx.Date)
      month == IF key \in DOMAIN spendings THEN spendings[key] ELSE <<>>
      userSpendings ==
        [FirstName |-> tx.FirstName, LastName |-> tx.LastName, Email |-> tx.Email,
         TotalGBP |-> IF tx.Email \in DOMAIN month THEN month[tx.Email].TotalGBP ELSE 0,
         TransactionCount |->
           IF tx.Email \in DOMAIN month THEN month[tx.Email].TransactionCount ELSE 0]
      month2 == (tx.Email :> update(userSpendings, tx)) @@ month
  IN (key :> month2) @@ spendings

\* the body of the range loop of TopSpenders for a transaction that passed the
\* filter: find or create the month, find or create the user, update.
aggregate(spendings, tx) ==
  LET key == monthKey(tx.Date)
      month == IF key \in DOMAIN spendings THEN spendings[key] ELSE <<>>
      userSpendings ==
        IF tx.Email \in DOMAIN month THEN month[tx.Email]
        ELSE [FirstName |-> tx.FirstName, LastName |-> tx.LastName,
              Email |-> tx.Email, TotalGBP |-> 0, TransactionCount |-> 0]
      month2 == (tx.Email :> update(userSpendings, tx)) @@ month
  IN (key :> month2) @@ spendings

\* the error branch without its StopOnError return
abortOnErrorNever(stopOnError, parsed) == FALSE

\* if parsed.err != nil { if cfg.StopOnError { return parsed.err } ... }
abortOnError(stopOnError, parsed) ==
  parsed.err # NilErr /\ stopOnError

(***************************************************************************)
(* writeMonthlySpendings                                                   *)
(***************************************************************************)
\* data[i], data[j] = data[j], data[i]
Swap(s, i, j) == [s EXCEPT ![i] = s[j], ![j] = s[i]]

\* sort.Ints turned around: the later month first
RECURSIVE insertIntDescending(_, _)
insertIntDescending(s, j) ==
  IF j > 1 /\ s[j] > s[j - 1] THEN insertIntDescending(Swap(s, j, j - 1), j - 1) ELSE s

\* sort.Ints(monthsSeen): for j := i; j > a && data[j] < data[j-1]; j-- { swap }
RECURSIVE insertInt(_, _)
insertInt(s, j) ==
  IF j > 1 /\ s[j] < s[j - 1] THEN insertInt(Swap(s, j, j - 1), j - 1) ELSE s

RECURSIVE sortIntsFrom(_, _)
sortIntsFrom(s, i) ==
  IF i > Len(s) THEN s ELSE sortIntsFrom(insertInt(s, i), i + 1)

sortInts(s) == sortIntsFrom(s, 2)

\* One enumeration of a set of month keys, as `for m := range spendings`
\* appends them.  Go leaves the order open; distinct integers have exactly
\* one ascending order, so sortInts returns the same slice from every one.
RECURSIVE keysOf(_)
keysOf(S) ==
  IF S = {} THEN <<>>
  ELSE LET m == CHOOSE x \in S : TRUE IN <<m>> \o keysOf(S \ {m})

\* All orders in which `for _, spendings := range month` can visit a map:
\* Go does not specify the iteration order of a map.
RECURSIVE Perms(_)
Perms(S) ==
  IF S = {} THEN {<<>>}
  ELSE UNION {{<<x>> \o p : p \in Perms(S \ {x})} : x \in S}

rangeOrders(month) ==
  {[i \in 1..Len(p) |-> month[p[i]]] : p \in Perms(DOMAIN month)}

\* the less function turned around: ascending by TotalGBP
lessAscending(a, b) == a.TotalGBP < b.TotalGBP

\* the less function handed to sort.Slice: descending by TotalGBP
less(a, b) == a.TotalGBP > b.TotalGBP

\* no sort.Slice call: the slice stays in the order of the map iteration
sortSliceSkipped(s) == s

\* sort.Slice on at most 12 elements is insertion sort:
\* for i := a + 1; i < b; i++ { for j := i; j > a && less(j, j-1); j-- { swap } }
RECURSIVE insertLess(_, _)
insertLess(s, j) ==
  IF j > 1 /\ less(s[j], s[j - 1]) THEN insertLess(Swap(s, j, j - 1), j - 1) ELSE s

RECURSIVE sortSliceFrom(_, _)
sortSliceFrom(s, i) ==
  IF i > Len(s) THEN s ELSE sortSliceFrom(insertLess(s, i), i + 1)

sortSlice(s) == sortSliceFrom(s, 2)

\* topN := 5; if len(userSpendings) < topN { topN = len(userSpendings) }
topN(n) == IF n < topNLimit THEN n ELSE topNLimit

\* strconv.FormatFloat(v, 'f', 7, 64) of an integral v: the integer part and
\* currencyPrecisionDecimals zero digits after the point.
FormatFloat(v) == [int |-> v, frac |-> [i \in 1..currencyPrecisionDecimals |-> 0]]

\* time.Date(key/100, time.Month(key%100), 1, ...).Format("2006/01")
formatMonth(key) == [Year |-> key \div 100, Month |-> key % 100]

\* The rows of the report are records of one shape; HeaderRow is the line
\* date,rank,amount,currency,transactions,email,firstName,lastName.
HeaderRow ==
  [kind |-> "header", date |-> formatMonth(0), rank |-> 0, amount |-> FormatFloat(0),
   currency |-> "currency", transactions |-> 0, email |-> "email",
   firstName |-> "firstName", lastName |-> "lastName"]

dataRow(key, rank, us) ==
  [kind |-> "data", date |-> formatMonth(key), rank |-> rank,
   amount |-> FormatFloat(us.TotalGBP), currency |-> "GBP",
   transactions |-> us.TransactionCount, email |-> us.Email,
   firstName |-> us.FirstName, lastName |-> us.LastName]

\* the rows written for one month from its sorted slice
monthRows(key, userSpendings) ==
  [i \in 1..topN(Len(userSpendings)) |-> dataRow(key, i, userSpendings[i])]

\* the data rows writeMonthlySpendings can write for months k.. of monthsSeen
RECURSIVE writeMonths(_, _, _)
writeMonths(spendings, monthsSeen, k) ==
  IF k > Len(monthsSeen) THEN {<<>>}
  ELSE LET key == monthsSeen[k]
           rowsOfMonth ==
             {monthRows(key, sortSlice(o)) : o \in rangeOrders(spendings[key])}
       IN {r \o rest : r \in rowsOfMonth,
                       rest \in writeMonths(spendings, monthsSeen, k + 1)}

\* every report writeMonthlySpendings(spendings, w) can write
writeMonthlySpendings(spendings) ==
  LET monthsSeen == sortInts(keysOf(DOMAIN spendings))
  IN {<<HeaderRow>> \o rows : rows \in writeMonths(spendings, monthsSeen, 1)}

(***************************************************************************)
(* The input.  An input is the list of records the CSV text holds (the     *)
(* first one is the header line) and how the source ends after them: with  *)
(* io.EOF or with a read failure.                                          *)
(***************************************************************************)
MaxRows == 3
MaxRankRows == 7
MaxRerunRows == 3
MaxLiveRows == 3
MaxFieldRows == 3

Record(first, last, email, type, amount, from, to, rate, date) ==
  <<first, last, email, type, "5013", amount, from, to, rate, date>>

HeaderRecord ==
  <<"First name", "Last name", "Email", "Description", "Merchant code",
    "Amount", "From Currency", "To Currency", "Rate", "Date">>

\* a header line without the Date column
ShortHeader ==
  <<"First name", "Last name", "Email", "Description", "Merchant code",
    "Amount", "From Currency", "To Currency", "Rate">>

Jan24 == "10/01/2024 12:00"
Feb24 == "05/02/2024 09:30"
Dec23 == "28/12/2023 18:45"

\* valid CARD SPEND rows: GBP, GGM (2 * 3 = 6 GBP), and a GBP spend of an
\* earlier month whose to-currency is GGM
RowA == Record("A", "A", "a@test.com", txCardSpend, "1", currencyGBP, currencyGBP, "1", Jan24)
RowB == Record("B", "B", "b@test.com", txCardSpend, "2", currencyGGM, currencyGBP, "3", Jan24)
RowA2 == Record("A", "A", "a@test.com", txCardSpend, "2", currencyGBP, currencyGGM, "3", Dec23)
\* valid rows of the other two types
RowBuy == Record("C", "C", "c@test.com", txBuyGold, "5", currencyGBP, currencyGGM, "3", Feb24)
RowSell == Record("A", "A", "a@test.com", txSellGold, "5", currencyGGM, currencyGBP, "3", Jan24)
\* rows that fail decoding or validation
RowBadAmount == Record("B", "B", "b@test.com", txCardSpend, "invalid_amount", currencyGBP, currencyGBP, "1", Jan24)
RowBadDate == Record("C", "C", "c@test.com", txCardSpend, "5", currencyGBP, currencyGBP, "1", "2024-01-10 12:00")
RowBadType == Record("C", "C", "c@test.com", "REFUND", "5", currencyGBP, currencyGBP, "1", Feb24)
RowBadCurrency == Record("B", "B", "b@test.com", txCardSpend, "5", "USD", currencyGBP, "1", Jan24)
\* a row with nine columns
RowShort == <<"C", "C", "c@test.com", txCardSpend, "5013", "5", currencyGBP, currencyGBP, "1">>

Rows ==
  {RowA, RowB, RowA2, RowBuy, RowSell,
   RowBadAmount, RowBadDate, RowBadType, RowBadCurrency, RowShort}

RECURSIVE SeqsUpTo(_, _)
SeqsUpTo(S, n) ==
  IF n = 0 THEN {<<>>}
  ELSE LET shorter == SeqsUpTo(S, n - 1)
       IN shorter \cup {Append(q, x) : q \in {t \in shorter : Len(t) = n - 1}, x \in S}

Ends == {errEOF, errRead}

\* the empty input, and a header line followed by up to MaxRows rows
Inputs ==
  {[records |-> <<>>, end |-> e] : e \in Ends}
  \cup {[records |-> <<h>> \o rs, end |-> e] :
          h \in {HeaderRecord, ShortHeader}, rs \in SeqsUpTo(Rows, MaxRows), e \in Ends}

\* Inputs of valid CARD SPEND rows of six users, for the ranking: row i is a
\* spend of 1 or 2 GBP in January 2024 or a spend of 1 GBP in December 2023,
\* of user i (of the first user again after the sixth).
RankUsers == <<"a", "b", "c", "d", "e", "f">>

RankRow(user, amount, date) ==
  Record(user, user, user \o "@test.com", txCardSpend, amount, currencyGBP, currencyGBP, "1", date)

RankRowsAt(i) ==
  LET u == RankUsers[((i - 1) % Len(RankUsers)) + 1]
  IN {RankRow(u, "1", Jan24), RankRow(u, "2", Jan24), RankRow(u, "1", Dec23)}

RECURSIVE RankSeqs(_)
RankSeqs(n) ==
  IF n = 0 THEN {<<>>}
  ELSE LET shorter == RankSeqs(n - 1)
       IN shorter \cup {Append(q, x) : q \in {t \in shorter : Len(t) = n - 1},
                                       x \in RankRowsAt(n)}

RankInputs ==
  {[records |-> <<HeaderRecord>> \o rs, end |-> errEOF] : rs \in RankSeqs(MaxRankRows)}

\* the shorter ones of these inputs, for running TopSpenders twice
RerunInputs ==
  {[records |-> <<HeaderRecord>> \o rs, end |-> errEOF] : rs \in RankSeqs(MaxRerunRows)}

\* Inputs for the runs to completion: a valid CARD SPEND row, a valid row of
\* another type, a row that fails decoding and a row with nine columns
LiveRows == {RowA, RowBuy, RowBadAmount, RowShort}

LiveInputs ==
  {[records |-> <<>>, end |-> e] : e \in Ends}
  \cup {[records |-> <<HeaderRecord>> \o rs, end |-> e] :
          rs \in SeqsUpTo(LiveRows, MaxLiveRows), e \in Ends}

\* Inputs for what the fields of a row do.  Valid CARD SPEND rows of
\* a@test.com under other names, in January 2024 and in December 2023, and
\* one with a negative amount; a row whose to-currency is not a currency.
RowOtherName == Record("X", "Y", "a@test.com", txCardSpend, "3", currencyGBP, currencyGBP, "1", Jan24)
RowOtherNameDec == Record("P", "Q", "a@test.com", txCardSpend, "5", currencyGBP, currencyGBP, "1", Dec23)
RowNegative == Record("A", "A", "a@test.com", txCardSpend, "-1", currencyGBP, currencyGBP, "1", Jan24)
RowBadTo == Record("B", "B", "b@test.com", txCardSpend, "5", currencyGBP, "EUR", "1", Jan24)
\* the spend of 200 of the tests, its rate written as runTest writes it
RowTest == Record("C", "C", "c@test.com", txCardSpend, "200", currencyGBP, currencyGBP, "1.0000000", "12/01/2024 12:00")

\* a spend of ten whose digits an underscore separates
RowGrouped == Record("B", "B", "b@test.com", txCardSpend, "1_0", currencyGBP, currencyGBP, "1", Jan24)

FieldRows ==
  {RowA, RowB, RowA2, RowOtherName, RowOtherNameDec, RowNegative, RowSell,
   RowBadTo, RowBadType, RowBadCurrency, RowTest, RowGrouped}

FieldInputs ==
  {[records |-> <<HeaderRecord>> \o rs, end |-> errEOF] :
     rs \in SeqsUpTo(FieldRows, MaxFieldRows)}

(***************************************************************************)
(* The state                                                               *)
(***************************************************************************)
VARIABLES
  input,             \* the CSV source handed to TopSpenders
  stopOnError,       \* cfg.StopOnError
  csvPos,            \* records csvReader has consumed
  fieldsPerRecord,   \* csvReader.FieldsPerRecord (0 until the first record)
  ppc,               \* where the goroutine of newTxStream is
  pending,           \* the parsedTx the goroutine is about to send
  txChan,            \* the buffer of txChan
  closed,            \* close(txChan) has happened
  cpc,               \* where TopSpenders is: in its range loop or returned
  monthlySpendings,  \* yearmonth -> email -> UserMonthlySpending
  logged,            \* the errors handed to slog.Error, in order
  received,          \* the values the range loop has taken off txChan, in order
  out,               \* what has been written to results
  ret,               \* the error TopSpenders returned (NilErr: nil)
  run,               \* which run on this input this is
  prev               \* the report and return value of the run before

vars ==
  <<input, stopOnError, csvPos, fieldsPerRecord, ppc, pending, txChan, closed,
    cpc, monthlySpendings, logged, received, out, ret, run, prev>>

NilParsed == [tx |-> NilTx, err |-> NilErr]

\* the state in which TopSpenders starts on an input
Start(in, stop) ==
  /\ input = in
  /\ stopOnError = stop
  /\ csvPos = 0
  /\ fieldsPerRecord = 0
  /\ ppc = "header"
  /\ pending = NilParsed
  /\ txChan = <<>>
  /\ closed = FALSE
  /\ cpc = "range"
  /\ monthlySpendings = <<>>
  /\ logged = <<>>
  /\ received = <<>>
  /\ out = <<>>
  /\ ret = NilErr

Init ==
  /\ \E in \in Inputs, stop \in BOOLEAN : Start(in, stop)
  /\ run = 1
  /\ prev = [out |-> <<>>, ret |-> NilErr]

InitRank ==
  /\ \E in \in RankInputs : Start(in, FALSE)
  /\ run = 1
  /\ prev = [out |-> <<>>, ret |-> NilErr]

InitTwoRuns ==
  /\ \E in \in RerunInputs, stop \in BOOLEAN : Start(in, stop)
  /\ run = 1
  /\ prev = [out |-> <<>>, ret |-> NilErr]

InitLive ==
  /\ \E in \in LiveInputs, stop \in BOOLEAN : Start(in, stop)
  /\ run = 1
  /\ prev = [out |-> <<>>, ret |-> NilErr]

InitFields ==
  /\ \E in \in FieldInputs, stop \in BOOLEAN : Start(in, stop)
  /\ run = 1
  /\ prev = [out |-> <<>>, ret |-> NilErr]

(***************************************************************************)
(* csvReader.Read() of encoding/csv with the default FieldsPerRecord = 0:  *)
(* the first record sets the number of fields, and a later record with     *)
(* another number of fields is returned with ErrFieldCount.                *)
(***************************************************************************)
csvRead(in, pos, fields) ==
  IF pos >= Len(in.records)
    THEN [record |-> <<>>, err |-> in.end, pos |-> pos, fields |-> fields]
    ELSE LET rec == in.records[pos + 1]
         IN [record |-> rec,
             err |-> IF fields # 0 /\ Len(rec) # fields THEN errFieldCount ELSE NoMsg,
             pos |-> pos + 1,
             fields |-> IF fields = 0 THEN Len(rec) ELSE fields]

\* decodeRecord, then validate: the parsedTx the loop of newTxStream sends for
\* a record it has read (row: the number of the record)
parseRecord(record, row) ==
  LET d == decodeRecord(record)
  IN IF d.err # NoMsg THEN [tx |-> NilTx, err |-> [msg |-> d.err, row |-> row]]
     ELSE IF validate(d.tx) # NoMsg
       THEN [tx |-> NilTx, err |-> [msg |-> validate(d.tx), row |-> row]]
     ELSE [tx |-> d.tx, err |-> NilErr]

\* errors.Is(err, io.EOF)
isEOF(msg) == msg = errEOF

(***************************************************************************)
(* The goroutine of newTxStream                                            *)
(***************************************************************************)
producerVars == <<csvPos, fieldsPerRecord, ppc, pending, txChan, closed>>
consumerVars == <<cpc, monthlySpendings, logged, received, out, ret>>
fixedVars == <<input, stopOnError, run, prev>>

\* a header read that closes the channel on an error without sending it
ProducerHeaderSilent ==
  /\ ppc = "header"
  /\ LET r == csvRead(input, csvPos, fieldsPerRecord)
     IN /\ csvPos' = r.pos
        /\ fieldsPerRecord' = r.fields
        /\ ppc' = IF r.err # NoMsg THEN "close" ELSE "read"
  /\ UNCHANGED <<pending, txChan, closed>>
  /\ UNCHANGED consumerVars
  /\ UNCHANGED fixedVars

\* if _, err := csvReader.Read(); err != nil { txChan <- parsedTx{err: err}; close; return }
ProducerHeader ==
  /\ ppc = "header"
  /\ LET r == csvRead(input, csvPos, fieldsPerRecord)
     IN /\ csvPos' = r.pos
        /\ fieldsPerRecord' = r.fields
        /\ IF r.err # NoMsg
             THEN /\ pending' = [tx |-> NilTx, err |-> [msg |-> r.err, row |-> csvPos + 1]]
                  /\ ppc' = "sendLast"
             ELSE /\ pending' = pending
                  /\ ppc' = "read"
  /\ UNCHANGED <<txChan, closed>>
  /\ UNCHANGED consumerVars
  /\ UNCHANGED fixedVars

\* one pass of the for loop up to its send, close or continue
ProducerRead ==
  /\ ppc = "read"
  /\ LET r == csvRead(input, csvPos, fieldsPerRecord)
     IN /\ csvPos' = r.pos
        /\ fieldsPerRecord' = r.fields
        /\ IF r.err # NoMsg
             THEN IF ~isEOF(r.err)
                    THEN /\ pending' = [tx |-> NilTx, err |-> [msg |-> r.err, row |-> csvPos + 1]]
                         /\ ppc' = "sendLast"
                    ELSE /\ pending' = pending
                         /\ ppc' = "close"
             ELSE /\ pending' = parseRecord(r.record, r.pos)
                  /\ ppc' = "send"
  /\ UNCHANGED <<txChan, closed>>
  /\ UNCHANGED consumerVars
  /\ UNCHANGED fixedVars

\* a send into a channel without a capacity
ProducerSendUnbounded ==
  /\ ppc \in {"send", "sendLast"}
  /\ txChan' = Append(txChan, pending)
  /\ pending' = NilParsed
  /\ ppc' = IF ppc = "sendLast" THEN "close" ELSE "read"
  /\ UNCHANGED <<csvPos, fieldsPerRecord, closed>>
  /\ UNCHANGED consumerVars
  /\ UNCHANGED fixedVars

\* txChan <- pending: blocks while the buffer is full
ProducerSend ==
  /\ ppc \in {"send", "sendLast"}
  /\ Len(txChan) < txChanCap
  /\ txChan' = Append(txChan, pending)
  /\ pending' = NilParsed
  /\ ppc' = IF ppc = "sendLast" THEN "close" ELSE "read"
  /\ UNCHANGED <<csvPos, fieldsPerRecord, closed>>
  /\ UNCHANGED consumerVars
  /\ UNCHANGED fixedVars

\* the goroutine returns without closing txChan
ProducerReturnsUnclosed ==
  /\ ppc = "close"
  /\ ppc' = "done"
  /\ UNCHANGED <<csvPos, fieldsPerRecord, pending, txChan, closed>>
  /\ UNCHANGED consumerVars
  /\ UNCHANGED fixedVars

\* close(txChan); return
ProducerClose ==
  /\ ppc = "close"
  /\ closed' = TRUE
  /\ ppc' = "done"
  /\ UNCHANGED <<csvPos, fieldsPerRecord, pending, txChan>>
  /\ UNCHANGED consumerVars
  /\ UNCHANGED fixedVars

(***************************************************************************)
(* TopSpenders                                                             *)
(***************************************************************************)
\* one pass of `for parsed := range transactions`
ConsumerRecv ==
  /\ cpc = "range"
  /\ txChan # <<>>
  /\ LET parsed == Head(txChan)
     IN /\ txChan' = Tail(txChan)
        /\ received' = Append(received, parsed)
        /\ IF abortOnError(stopOnError, parsed)
             THEN /\ ret' = parsed.err
                  /\ cpc' = "returned"
                  /\ UNCHANGED <<monthlySpendings, logged>>
             ELSE IF parsed.err # NilErr
               THEN /\ logged' = Append(logged, parsed.err)
                    /\ UNCHANGED <<monthlySpendings, cpc, ret>>
             ELSE IF ~isCardSpend(parsed.tx)
               THEN UNCHANGED <<monthlySpendings, logged, cpc, ret>>
             ELSE /\ monthlySpendings' = aggregate(monthlySpendings, parsed.tx)
                  /\ UNCHANGED <<logged, cpc, ret>>
  /\ out' = out
  /\ UNCHANGED <<csvPos, fieldsPerRecord, ppc, pending, closed>>
  /\ UNCHANGED fixedVars

\* a loop that ends as soon as the channel is empty
ConsumerFinishOnEmpty ==
  /\ cpc = "range"
  /\ txChan = <<>>
  /\ out' \in writeMonthlySpendings(monthlySpendings)
  /\ ret' = NilErr
  /\ cpc' = "returned"
  /\ UNCHANGED <<monthlySpendings, logged, received>>
  /\ UNCHANGED producerVars
  /\ UNCHANGED fixedVars

\* the range loop ends on the closed, drained channel:
\* return writeMonthlySpendings(monthlySpendings, results)
ConsumerFinish ==
  /\ cpc = "range"
  /\ txChan = <<>>
  /\ closed
  /\ out' \in writeMonthlySpendings(monthlySpendings)
  /\ ret' = NilErr
  /\ cpc' = "returned"
  /\ UNCHANGED <<monthlySpendings, logged, received>>
  /\ UNCHANGED producerVars
  /\ UNCHANGED fixedVars

\* TopSpenders is called once more on the same input with the same Config
Rerun ==
  /\ cpc = "returned"
  /\ ppc = "done"
  /\ run = 1
  /\ run' = 2
  /\ prev' = [out |-> out, ret |-> ret]
  /\ csvPos' = 0
  /\ fieldsPerRecord' = 0
  /\ ppc' = "header"
  /\ pending' = NilParsed
  /\ txChan' = <<>>
  /\ closed' = FALSE
  /\ cpc' = "range"
  /\ monthlySpendings' = <<>>
  /\ logged' = <<>>
  /\ received' = <<>>
  /\ out' = <<>>
  /\ ret' = NilErr
  /\ UNCHANGED <<input, stopOnError>>

Next ==
  \/ ProducerHeader
  \/ ProducerRead
  \/ ProducerSend
  \/ ProducerClose
  \/ ConsumerRecv
  \/ ConsumerFinish

Spec == Init /\ [][Next]_vars

SpecRank == InitRank /\ [][Next]_vars

NextTwoRuns == Next \/ Rerun

SpecTwoRuns == InitTwoRuns /\ [][NextTwoRuns]_vars

\* The Go scheduler runs every goroutine that can take a step: the goroutine
\* of newTxStream and the caller of TopSpenders each go on while one of
\* their steps is possible.
Producer == ProducerHeader \/ ProducerRead \/ ProducerSend \/ ProducerClose

Consumer == ConsumerRecv \/ ConsumerFinish

Fairness == WF_vars(Producer) /\ WF_vars(Consumer)

SpecLive == InitLive /\ [][Next]_vars /\ Fairness

SpecFields == InitFields /\ [][Next]_vars

(***************************************************************************)
(* What the input says, read off the records themselves                    *)
(***************************************************************************)
Min(S) == CHOOSE x \in S : \A y \in S : x <= y

\* the run has ended by the range loop running off the closed channel
Finished == cpc = "returned" /\ ret = NilErr

\* what the amount, rate and date literals of the inputs say
FloatValue ==
  ("1" :> 1) @@ ("2" :> 2) @@ ("3" :> 3) @@ ("5" :> 5) @@ ("-1" :> -1) @@
  ("200" :> 200) @@ ("1.0000000" :> 1) @@ ("1_0" :> 10)

TimeValue ==
  ("10/01/2024 12:00" :> [Year |-> 2024, Month |-> 1, Day |-> 10, Hour |-> 12, Minute |-> 0]) @@
  ("12/01/2024 12:00" :> [Year |-> 2024, Month |-> 1, Day |-> 12, Hour |-> 12, Minute |-> 0]) @@
  ("05/02/2024 09:30" :> [Year |-> 2024, Month |-> 2, Day |-> 5, Hour |-> 9, Minute |-> 30]) @@
  ("28/12/2023 18:45" :> [Year |-> 2023, Month |-> 12, Day |-> 28, Hour |-> 18, Minute |-> 45])

\* the record has the ten columns, decimal amount and rate, a date of the
\* layout, a known type and known currencies
IsValidRow(rec) ==
  /\ Len(rec) >= 10
  /\ rec[4] \in {"CARD SPEND", "BUY GOLD", "SELL GOLD"}
  /\ rec[6] \in DOMAIN FloatValue
  /\ rec[7] \in {"GBP", "GGM"}
  /\ rec[8] \in {"GBP", "GGM"}
  /\ rec[9] \in DOMAIN FloatValue
  /\ rec[10] \in DOMAIN TimeValue

\* the CSV reader rejects record i: its number of fields is not the header's
ReadFailsAt(in, i) == i > 1 /\ Len(in.records[i]) # Len(in.records[1])

\* the data rows that fail: rejected by the reader, or not a valid row
FailingRows(in) ==
  {i \in 2..Len(in.records) : ReadFailsAt(in, i) \/ ~IsValidRow(in.records[i])}

\* the record number at which reading fails other than by end of input, or 0
ReadFailure(in) ==
  LET bad == {i \in 2..Len(in.records) : ReadFailsAt(in, i)}
  IN IF bad # {} THEN Min(bad)
     ELSE IF in.end = errRead THEN Len(in.records) + 1
     ELSE 0

\* the data rows that are valid CARD SPEND rows
Qualifying(in) ==
  {i \in 2..Len(in.records) :
     IsValidRow(in.records[i]) /\ in.records[i][4] = "CARD SPEND"}

KeyOf(rec) == TimeValue[rec[10]].Year * 100 + TimeValue[rec[10]].Month

\* amount when from-currency is GBP, amount x rate when it is GGM
GBPOf(rec) ==
  IF rec[7] = "GBP" THEN FloatValue[rec[6]]
  ELSE FloatValue[rec[6]] * FloatValue[rec[9]]

QualifyingFor(in, key, email) ==
  {i \in Qualifying(in) : KeyOf(in.records[i]) = key /\ in.records[i][3] = email}

RECURSIVE SumGBP(_, _)
SumGBP(in, S) ==
  IF S = {} THEN 0
  ELSE LET i == CHOOSE x \in S : TRUE
       IN GBPOf(in.records[i]) + SumGBP(in, S \ {i})

InputKeys(in) == {KeyOf(in.records[i]) : i \in Qualifying(in)}
InputEmails(in) == {in.records[i][3] : i \in Qualifying(in)}
IndexEmails(ms) == UNION {DOMAIN ms[k] : k \in DOMAIN ms}

HasEntry(ms, key, email) == key \in DOMAIN ms /\ email \in DOMAIN ms[key]

\* the index the valid rows of the input alone build, in input order
RECURSIVE IndexOfValidRows(_, _)
IndexOfValidRows(in, n) ==
  IF n < 2 THEN <<>>
  ELSE LET ms == IndexOfValidRows(in, n - 1)
       IN IF n \in Qualifying(in)
            THEN aggregate(ms, decodeRecord(in.records[n]).tx)
            ELSE ms

\* the report
IsData(r) == r.kind = "data"
DataRows(o) == SelectSeq(o, IsData)
KeyOfRow(r) == r.date.Year * 100 + r.date.Month
RowsOfMonth(o, key) ==
  LET InMonth(r) == r.kind = "data" /\ KeyOfRow(r) = key IN SelectSeq(o, InMonth)

(***************************************************************************)
(* C1..C10                                                                 *)
(***************************************************************************)
\* C1: in strict mode (StopOnError), on an input with at least one failing
\* data row, nothing is ever written to the output, and when TopSpenders
\* returns it returns a non-nil error, the error of the first failing row in
\* input order, whatever rows come before or after it.
C1_StrictModeAborts ==
  (stopOnError /\ FailingRows(input) # {}) =>
    /\ out = <<>>
    /\ cpc = "returned" =>
         /\ ret # NilErr
         /\ ret.row = Min(FailingRows(input))

\* a strict run has returned the error of row 3, a failing row that stands
\* between two valid rows
C1_Witness ==
  /\ stopOnError
  /\ cpc = "returned"
  /\ Len(input.records) = 4
  /\ IsValidRow(input.records[2])
  /\ ~IsValidRow(input.records[3])
  /\ IsValidRow(input.records[4])
  /\ ret.row = 3
  /\ ret.msg = errSyntax
  /\ out = <<>>

\* C2: in default mode, on an input with the ten-column header, a data row
\* that fails decoding or validation is skipped: when TopSpenders returns it
\* returns nil with the report written (header first), the index is the one
\* the valid rows of the input alone build, so every valid row before and
\* after a failing row is aggregated and no failing row changed a total or
\* a count or created an entry, and every failing row was reported.
C2_DefaultModeSkips ==
  (~stopOnError /\ cpc = "returned" /\ Len(input.records) >= 1
     /\ Len(input.records[1]) = 10 /\ input.end = errEOF) =>
    /\ ret = NilErr
    /\ out # <<>>
    /\ out[1] = HeaderRow
    /\ monthlySpendings = IndexOfValidRows(input, Len(input.records))
    /\ \A i \in FailingRows(input) : \E k \in 1..Len(logged) : logged[k].row = i

\* C3: after the stream is exhausted (the range loop has run off the closed
\* channel), a (month, email) pair has an entry exactly when a valid CARD
\* SPEND row of the input has that month and email, its total is the sum of
\* those rows' GBP contributions (amount for GBP, amount x rate for GGM,
\* whatever the to-currency) and its count is their number.
C3_TotalsAreSums ==
  Finished =>
    \A key \in DOMAIN monthlySpendings \cup InputKeys(input) :
      \A email \in IndexEmails(monthlySpendings) \cup InputEmails(input) :
        LET R == QualifyingFor(input, key, email)
        IN IF R = {} THEN ~HasEntry(monthlySpendings, key, email)
           ELSE /\ HasEntry(monthlySpendings, key, email)
                /\ monthlySpendings[key][email].TotalGBP = SumGBP(input, R)
                /\ monthlySpendings[key][email].TransactionCount = Cardinality(R)

\* C4: receiving a BUY GOLD or SELL GOLD transaction leaves the whole monthly
\* index unchanged, and every row of the report is for a month and email of
\* some valid CARD SPEND row, so a user or month that has only BUY GOLD or
\* SELL GOLD transactions is not in the report.
C4_GoldIsIgnored ==
  /\ [][(/\ cpc = "range"
         /\ txChan # <<>>
         /\ txChan' = Tail(txChan)
         /\ Head(txChan).err = NilErr
         /\ Head(txChan).tx.TransactionType \in {"BUY GOLD", "SELL GOLD"})
        => monthlySpendings' = monthlySpendings]_vars
  /\ [](\A k \in 1..Len(out) :
          out[k].kind = "data" =>
            QualifyingFor(input, KeyOfRow(out[k]), out[k].email) # {})

\* a run has finished whose input holds a CARD SPEND row, the BUY GOLD row of
\* a user and month with no other row, and a SELL GOLD row of the first user
C4_Witness ==
  /\ Finished
  /\ \E i, j, k \in 2..Len(input.records) :
       /\ input.records[i] = RowBuy
       /\ input.records[j] = RowSell
       /\ input.records[k] = RowA
  /\ Len(DataRows(out)) = 1
  /\ out[2].email = "a@test.com"
  /\ out[2].amount.int = 1
  /\ out[2].transactions = 1

\* the rank column: 1..5, 1 on the first row of a month, one more than the
\* row before on every other row
RanksAreContiguous(o) ==
  \A k \in 1..Len(o) :
    o[k].kind = "data" =>
      /\ o[k].rank \in 1..5
      /\ IF k > 1 /\ o[k - 1].kind = "data" /\ o[k - 1].date = o[k].date
           THEN o[k].rank = o[k - 1].rank + 1
           ELSE o[k].rank = 1

SameMonthPair(o, k) ==
  /\ k \in 1..(Len(o) - 1)
  /\ o[k].kind = "data"
  /\ o[k + 1].kind = "data"
  /\ o[k].date = o[k + 1].date

\* C5 as stated: within a month of the report every row's total is strictly
\* greater than the next row's, and the ranks are 1..k, k <= 5, from 1 in
\* every month.
C5_StrictlyDescending ==
  /\ \A k \in 1..Len(out) :
       SameMonthPair(out, k) => out[k].amount.int > out[k + 1].amount.int
  /\ RanksAreContiguous(out)

\* C5, amended: within a month of the report every row's total is greater
\* than or equal to the next row's (users with equal totals follow one
\* another), and the ranks are 1..k, k <= 5, from 1 in every month.
C5_Descending ==
  /\ \A k \in 1..Len(out) :
       SameMonthPair(out, k) => out[k].amount.int >= out[k + 1].amount.int
  /\ RanksAreContiguous(out)

\* a report of two months: one row for December 2023, then five rows for a
\* January 2024 of six users, with a strict descent and a tie among them
C5_Witness ==
  /\ Finished
  /\ Len(out) = 7
  /\ KeyOfRow(out[2]) = 202312
  /\ out[2].rank = 1
  /\ KeyOfRow(out[3]) = 202401
  /\ out[3].rank = 1
  /\ out[7].rank = 5
  /\ Cardinality(DOMAIN monthlySpendings[202401]) = 6
  /\ \E k \in 3..6 : out[k].amount.int > out[k + 1].amount.int
  /\ \E k \in 3..6 : out[k].amount.int = out[k + 1].amount.int

\* C6: for every month of the index the report holds min(5, n) rows for its
\* n users, each for another user of the month with that user's total and
\* count, in descending order of total, and every user of the month that is
\* not in the report has a total less than or equal to that of every user
\* that is.
C6_TrueTopFive ==
  Finished =>
    \A key \in DOMAIN monthlySpendings :
      LET month == monthlySpendings[key]
          rows == RowsOfMonth(out, key)
          emitted == {rows[i].email : i \in 1..Len(rows)}
          n == Cardinality(DOMAIN month)
      IN /\ Len(rows) = (IF n < 5 THEN n ELSE 5)
         /\ Cardinality(emitted) = Len(rows)
         /\ emitted \subseteq DOMAIN month
         /\ \A i \in 1..Len(rows) :
              /\ rows[i].amount.int = month[rows[i].email].TotalGBP
              /\ rows[i].transactions = month[rows[i].email].TransactionCount
         /\ \A i \in 1..(Len(rows) - 1) : rows[i].amount.int >= rows[i + 1].amount.int
         /\ \A u \in DOMAIN month \ emitted :
              \A i \in 1..Len(rows) : month[u].TotalGBP <= rows[i].amount.int

\* a January of six users, one of them with a total below all others: the
\* report holds the other five
C6_Witness ==
  /\ Finished
  /\ 202401 \in DOMAIN monthlySpendings
  /\ Cardinality(DOMAIN monthlySpendings[202401]) = 6
  /\ Len(RowsOfMonth(out, 202401)) = 5
  /\ \E u \in DOMAIN monthlySpendings[202401] :
       /\ \A k \in 1..Len(out) : out[k].email # u
       /\ \A k \in 2..Len(out) :
            monthlySpendings[202401][u].TotalGBP < out[k].amount.int

\* C7: the months of the report never go back (so the rows of a month are
\* one block and the blocks are in chronological order), and every month of
\* the report is the month of a valid CARD SPEND row of the input.
C7_MonthsAscending ==
  /\ \A j, k \in 1..Len(out) :
       (j < k /\ out[j].kind = "data" /\ out[k].kind = "data") =>
         \/ out[j].date.Year < out[k].date.Year
         \/ /\ out[j].date.Year = out[k].date.Year
            /\ out[j].date.Month <= out[k].date.Month
  /\ \A k \in 1..Len(out) :
       out[k].kind = "data" =>
         \E i \in Qualifying(input) :
           /\ TimeValue[input.records[i][10]].Year = out[k].date.Year
           /\ TimeValue[input.records[i][10]].Month = out[k].date.Month

\* the input has a January 2024 row before a December 2023 row; the report
\* has the December row first
C7_Witness ==
  /\ Finished
  /\ Len(input.records) >= 3
  /\ input.records[2] = RowB
  /\ input.records[3] = RowA2
  /\ Len(out) = 3
  /\ out[2].date = [Year |-> 2023, Month |-> 12]
  /\ out[3].date = [Year |-> 2024, Month |-> 1]

\* the distinct emails with a valid CARD SPEND row in the month
Spenders(in, key) ==
  {in.records[i][3] : i \in {j \in Qualifying(in) : KeyOf(in.records[j]) = key}}

\* C8: when the report is written, a month with n distinct qualifying
\* spenders of the input has exactly min(n, 5) rows in it: n when n < 5,
\* five when n >= 5.
C8_RowsPerMonth ==
  Finished =>
    \A key \in InputKeys(input) \cup {KeyOfRow(out[k]) : k \in 2..Len(out)} :
      LET n == Cardinality(Spenders(input, key))
      IN Len(RowsOfMonth(out, key)) = (IF n < 5 THEN n ELSE 5)

\* C9: a second run of TopSpenders on the same input with the same Config
\* writes the report of the first run, row for row, and returns the same.
C9_Deterministic ==
  (run = 2 /\ cpc = "returned") => (out = prev.out /\ ret = prev.ret)

\* C10: when the source fails after the header and the rows, other than by
\* end of input, and no failing row makes a strict run return first,
\* TopSpenders returns the read error, in default mode too.
C10_ReadFailureIsReturned ==
  (/\ cpc = "returned"
   /\ Len(input.records) >= 1
   /\ input.end = errRead
   /\ ReadFailure(input) = Len(input.records) + 1
   /\ (stopOnError => FailingRows(input) = {})) =>
    /\ ret # NilErr
    /\ ret.msg = errRead
    /\ ret.row = ReadFailure(input)

(***************************************************************************)
(* C11..C20                                                                *)
(***************************************************************************)
\* data row i has the wrong number of columns: fewer than ten fields, or a
\* number of fields that is not the header's
WrongColumns(in, i) ==
  Len(in.records[i]) < 10 \/ Len(in.records[i]) # Len(in.records[1])

\* the valid CARD SPEND rows that have the right number of columns
QualifyingColumns(in) == {i \in Qualifying(in) : ~WrongColumns(in, i)}

\* C11: a data row with the wrong number of columns is a per-row error: in
\* default mode, on an input that ends by end of input, when TopSpenders
\* returns the range loop has received one result for every data row, the
\* result of every row with the wrong number of columns is an error, and
\* every valid CARD SPEND row with the right number of columns, also one
\* after such a row, has its aggregate.
C11_WrongColumnsIsPerRow ==
  (~stopOnError /\ cpc = "returned" /\ Len(input.records) >= 1
     /\ input.end = errEOF) =>
    /\ Len(received) = Len(input.records) - 1
    /\ \A i \in 2..Len(input.records) :
         WrongColumns(input, i) => received[i - 1].err # NilErr
    /\ \A i \in QualifyingColumns(input) :
         HasEntry(monthlySpendings, KeyOf(input.records[i]), input.records[i][3])

\* C12: when TopSpenders has returned the error of a failing row under
\* StopOnError, the goroutine of newTxStream eventually returns.
C12_ProducerTerminates ==
  (stopOnError /\ cpc = "returned" /\ ret # NilErr) ~> (ppc = "done")

\* r is the result of data record i: an error for that record when the
\* reader rejects it or it is not a valid row, else its transaction
IsResultOfRow(in, i, r) ==
  LET rec == in.records[i]
  IN IF ReadFailsAt(in, i) \/ ~IsValidRow(rec)
       THEN r.err # NilErr /\ r.err.row = i /\ r.tx = NilTx
       ELSE /\ r.err = NilErr
            /\ r.tx.FirstName = rec[1]
            /\ r.tx.LastName = rec[2]
            /\ r.tx.Email = rec[3]
            /\ r.tx.TransactionType = rec[4]
            /\ r.tx.Amount = FloatValue[rec[6]]
            /\ r.tx.FromCurrency = rec[7]
            /\ r.tx.ToCurrency = rec[8]
            /\ r.tx.Rate = FloatValue[rec[9]]
            /\ r.tx.Date = TimeValue[rec[10]]

\* the number of data rows of the input
DataRowCount(in) == Len(in.records) - 1

\* C13: when the header has been read, the k-th value the range loop
\* receives is the result of the k-th data row, for every k up to the number
\* of data rows (nothing lost, duplicated or reordered, nothing for the
\* header); the only other value ever received is the error of a source that
\* fails after its last row; and when the range loop has run off the closed
\* channel, every data row has had its result.
C13_FifoOneResultPerRow ==
  Len(input.records) >= 1 =>
    /\ \A k \in 1..Len(received) :
         IF k <= DataRowCount(input)
           THEN IsResultOfRow(input, k + 1, received[k])
           ELSE /\ k = DataRowCount(input) + 1
                /\ input.end = errRead
                /\ received[k].err.msg = errRead
    /\ Finished =>
         Len(received) = DataRowCount(input) + (IF input.end = errRead THEN 1 ELSE 0)

\* C14: in default mode every run terminates: the goroutine of newTxStream
\* returns and TopSpenders returns.  The channel is closed once, by the step
\* that ends the goroutine, nothing is sent on it afterwards, TopSpenders
\* returns only when the channel is closed and empty with nothing left to
\* send, having received everything that was sent, and an input that ends
\* after its header by end of input gives no error result for its end: at
\* most one result per data row is received and none carries io.EOF.
C14_DefaultModeTerminates ==
  /\ (~stopOnError) ~> (cpc = "returned" /\ ppc = "done")
  /\ [][closed => (closed' /\ Len(txChan') <= Len(txChan))]_vars
  /\ [](closed <=> ppc = "done")
  /\ [](~stopOnError /\ cpc = "returned" =>
          /\ closed
          /\ txChan = <<>>
          /\ pending = NilParsed
          /\ ret = NilErr)
  /\ [](Len(input.records) >= 1 /\ input.end = errEOF =>
          /\ Len(received) <= DataRowCount(input)
          /\ \A k \in 1..Len(received) : received[k].err.msg # errEOF)

\* a default run on three rows that ends by end of input has terminated
\* with the channel closed and empty and three results received
C14_Witness ==
  /\ ~stopOnError
  /\ cpc = "returned"
  /\ ppc = "done"
  /\ closed
  /\ txChan = <<>>
  /\ input.end = errEOF
  /\ DataRowCount(input) = 3
  /\ Len(received) = 3

\* the step is the range loop taking a valid CARD SPEND transaction of the
\* month key and the user email off the channel
ReceivesQualifying(key, email) ==
  /\ cpc = "range"
  /\ txChan # <<>>
  /\ txChan' = Tail(txChan)
  /\ Head(txChan).err = NilErr
  /\ Head(txChan).tx.TransactionType = "CARD SPEND"
  /\ Head(txChan).tx.Date.Year * 100 + Head(txChan).tx.Date.Month = key
  /\ Head(txChan).tx.Email = email

\* C15: in every step, every (month, email) aggregate stays in the index,
\* its total does not go down (an aggregate not yet created counting as
\* total 0, count 0), and its count goes up by one when the step consumes a
\* qualifying transaction of that pair and is unchanged in every other step.
C15_TotalOnlyIncreases ==
  [][/\ \A key \in DOMAIN monthlySpendings :
          /\ key \in DOMAIN monthlySpendings'
          /\ DOMAIN monthlySpendings[key] \subseteq DOMAIN monthlySpendings'[key]
     /\ \A key \in DOMAIN monthlySpendings' :
          \A email \in DOMAIN monthlySpendings'[key] :
            LET had == HasEntry(monthlySpendings, key, email)
                oldTotal == IF had THEN monthlySpendings[key][email].TotalGBP ELSE 0
                oldCount == IF had THEN monthlySpendings[key][email].TransactionCount ELSE 0
                new == monthlySpendings'[key][email]
            IN /\ new.TotalGBP >= oldTotal
               /\ new.TransactionCount =
                    oldCount + (IF ReceivesQualifying(key, email) THEN 1 ELSE 0)
    ]_vars

\* C16: the report is written only after the stream is fully consumed.
\* Whenever anything has been written the goroutine of newTxStream has
\* returned, the channel is closed and empty and the range loop is over; the
\* step that writes leaves the index alone and writes a report of the index
\* as it stands; and once the range loop is over the index never changes.
C16_WriterAfterStream ==
  /\ [](out # <<>> =>
          /\ ppc = "done"
          /\ closed
          /\ txChan = <<>>
          /\ pending = NilParsed
          /\ cpc = "returned")
  /\ [][out' # out =>
          /\ ppc = "done"
          /\ closed
          /\ txChan = <<>>
          /\ monthlySpendings' = monthlySpendings
          /\ out' \in writeMonthlySpendings(monthlySpendings)]_vars
  /\ [][cpc = "returned" => monthlySpendings' = monthlySpendings]_vars

\* a report with two data rows has been written after three results were
\* received, the last of them aggregated
C16_Witness ==
  /\ Len(out) = 3
  /\ Len(received) = 3
  /\ received[3].err = NilErr
  /\ received[3].tx.TransactionType = "CARD SPEND"
  /\ HasEntry(monthlySpendings, 202312, received[3].tx.Email)
  /\ closed
  /\ txChan = <<>>

\* C17: the first name, last name and email of every (month, email)
\* aggregate are those of the first valid CARD SPEND row of that month and
\* email in the input, month by month, and no step changes them once the
\* aggregate exists: a later row of the pair changes the total and the count
\* only.
C17_NamesOfFirstTransaction ==
  /\ [](\A key \in DOMAIN monthlySpendings :
          \A email \in DOMAIN monthlySpendings[key] :
            LET R == QualifyingFor(input, key, email)
                us == monthlySpendings[key][email]
            IN /\ R # {}
               /\ us.FirstName = input.records[Min(R)][1]
               /\ us.LastName = input.records[Min(R)][2]
               /\ us.Email = email)
  /\ [][\A key \in DOMAIN monthlySpendings :
          \A email \in DOMAIN monthlySpendings[key] :
            /\ HasEntry(monthlySpendings', key, email)
            /\ monthlySpendings'[key][email].FirstName = monthlySpendings[key][email].FirstName
            /\ monthlySpendings'[key][email].LastName = monthlySpendings[key][email].LastName
            /\ monthlySpendings'[key][email].Email = monthlySpendings[key][email].Email]_vars

\* a@test.com spends as A A and then as X Y in January 2024 and as P Q in
\* December 2023: the January aggregate holds both spends under A A, the
\* December aggregate is P Q's
C17_Witness ==
  /\ Finished
  /\ input.records = <<HeaderRecord, RowA, RowOtherName, RowOtherNameDec>>
  /\ monthlySpendings[202401]["a@test.com"].FirstName = "A"
  /\ monthlySpendings[202401]["a@test.com"].LastName = "A"
  /\ monthlySpendings[202401]["a@test.com"].TotalGBP = 4
  /\ monthlySpendings[202401]["a@test.com"].TransactionCount = 2
  /\ monthlySpendings[202312]["a@test.com"].FirstName = "P"
  /\ monthlySpendings[202312]["a@test.com"].LastName = "Q"

\* the record decodes: ten columns, decimal amount and rate, a date of the
\* layout
Decodes(rec) ==
  /\ Len(rec) >= 10
  /\ rec[6] \in DOMAIN FloatValue
  /\ rec[9] \in DOMAIN FloatValue
  /\ rec[10] \in DOMAIN TimeValue

\* the type and the two currencies of the record are in their sets
InSets(rec) ==
  /\ rec[4] \in {"CARD SPEND", "BUY GOLD", "SELL GOLD"}
  /\ rec[7] \in {"GBP", "GGM"}
  /\ rec[8] \in {"GBP", "GGM"}

\* the parsedTx carries a transaction
CarriesTx(r) == r.err = NilErr

TxInSets(t) ==
  /\ t.TransactionType \in {"CARD SPEND", "BUY GOLD", "SELL GOLD"}
  /\ t.FromCurrency \in {"GBP", "GGM"}
  /\ t.ToCurrency \in {"GBP", "GGM"}

\* C18: every result that carries a transaction, about to be sent, in the
\* channel or received, has its type and both currencies in their sets; a
\* row that decodes gives an error result exactly when one of the three is
\* outside its set, whatever its other fields (names, sign of the amount,
\* equal currencies); and a step that consumes a qualifying transaction adds
\* to the total of its aggregate exactly one contribution, the amount of a
\* GBP spend or amount x rate of a GGM spend.
C18_OnlyValidTransactions ==
  /\ [](/\ \A k \in 1..Len(received) : CarriesTx(received[k]) => TxInSets(received[k].tx)
        /\ \A k \in 1..Len(txChan) : CarriesTx(txChan[k]) => TxInSets(txChan[k].tx)
        /\ (ppc = "send" /\ CarriesTx(pending)) => TxInSets(pending.tx))
  /\ [](\A k \in 1..Len(received) :
          (k <= DataRowCount(input) /\ Decodes(input.records[k + 1])) =>
            (received[k].err # NilErr <=> ~InSets(input.records[k + 1])))
  /\ [][\A key \in DOMAIN monthlySpendings' :
          \A email \in DOMAIN monthlySpendings'[key] :
            ReceivesQualifying(key, email) =>
              LET tx == Head(txChan).tx
                  oldTotal == IF HasEntry(monthlySpendings, key, email)
                                THEN monthlySpendings[key][email].TotalGBP ELSE 0
              IN /\ tx.FromCurrency \in {"GBP", "GGM"}
                 /\ monthlySpendings'[key][email].TotalGBP - oldTotal =
                      (IF tx.FromCurrency = "GBP" THEN tx.Amount
                       ELSE tx.Amount * tx.Rate)]_vars

\* rows with a from-currency USD and a to-currency EUR gave validation
\* errors, and the GGM spend of 2 at rate 3 after them added 6 to its
\* aggregate
C18_Witness ==
  /\ Finished
  /\ input.records = <<HeaderRecord, RowBadCurrency, RowBadTo, RowB>>
  /\ received[1].err = [msg |-> errCurrency, row |-> 2]
  /\ received[2].err = [msg |-> errCurrency, row |-> 3]
  /\ CarriesTx(received[3])
  /\ monthlySpendings[202401]["b@test.com"].TotalGBP = 6
  /\ monthlySpendings[202401]["b@test.com"].TransactionCount = 1

\* the data rows the reader has handed to the goroutine so far
DataRowsRead == IF csvPos = 0 THEN 0 ELSE csvPos - 1

\* C19: at every moment at most one result is in the channel, and the
\* goroutine of newTxStream has read at most two data rows more than the
\* range loop has received results: one in the channel and one it is
\* waiting to send.
C19_OneSlotHandoff ==
  /\ Len(txChan) <= 1
  /\ DataRowsRead - Len(received) <= 2

\* the goroutine has read the third data row while the result of the second
\* is in the channel and the range loop has received the first only
C19_Witness ==
  /\ Len(txChan) = 1
  /\ ppc = "send"
  /\ pending # NilParsed
  /\ DataRowsRead = 3
  /\ Len(received) = 1

\* C20: whatever has been written starts with the header row and has no
\* other header row, also when the index is empty; and in default mode, on
\* an input whose header cannot be read, the range loop receives nothing but
\* one error result, the error of that read, and when TopSpenders returns
\* the channel is closed, the return value is nil and the report is the
\* header row alone.
C20_HeaderRowOnce ==
  /\ out # <<>> =>
       /\ out[1] = HeaderRow
       /\ \A k \in 2..Len(out) : out[k].kind = "data"
  /\ (cpc = "returned" /\ ret = NilErr /\ monthlySpendings = <<>>) =>
       out = <<HeaderRow>>
  /\ (~stopOnError /\ input.records = <<>>) =>
       /\ Len(received) <= 1
       /\ \A k \in 1..Len(received) :
            received[k] = [tx |-> NilTx, err |-> [msg |-> input.end, row |-> 1]]
       /\ cpc = "returned" =>
            /\ Len(received) = 1
            /\ logged = <<[msg |-> input.end, row |-> 1]>>
            /\ closed
            /\ ret = NilErr
            /\ out = <<HeaderRow>>

\* a default run on the empty input has returned nil after one io.EOF error
\* result, with the header row written
C20_Witness ==
  /\ ~stopOnError
  /\ input = [records |-> <<>>, end |-> errEOF]
  /\ cpc = "returned"
  /\ ret = NilErr
  /\ Len(received) = 1
  /\ received[1].err.msg = errEOF
  /\ out = <<HeaderRow>>
====
